---- MODULE Spec2Model ----
(***************************************************************************)
(* The Solana mixer program (programs/mixer/src/lib.rs): the pool state    *)
(* with its ring of Merkle roots, and the three instruction handlers       *)
(* Initialize, PushRoot and Withdraw, run against a small ledger.          *)
(* A 32-byte value (root, nullifier hash) is a natural number, 0 being the *)
(* all-zero array.  An instruction that returns Err leaves the ledger as   *)
(* it was: the runtime commits an instruction's writes only on Ok.         *)
(***************************************************************************)
EXTENDS Integers, Sequences, FiniteSets, TLC

\* ---------------------------------------------------------------- bounds
MaxPush == 2
VaultFunds == 3
PayerFunds == 2
RingMaxPush == 32
MaxIrregular == 1
MaxEntryPush == 1

\* The values instructions are built from.
Roots == {0, 1}
Hashes == {1, 2}
Denominations == {1, 2}
RingRoots == 0..(RingMaxPush + 1)

\* ------------------------------------------------------- program constants
ROOT_HISTORY_SIZE == 30
LEN == 8 + 32 * ROOT_HISTORY_SIZE + 1
ZeroRoot == 0
\* rent.minimum_balance(MixerState::LEN) and rent.minimum_balance(0), in the
\* model's unit of lamports.
StateRent == 1
MarkerRent == 1

\* The accounts a caller can name.  "pda" is the address find_program_address
\* derives from the seed "mixer_state"; "alt" and "funded" are other
\* addresses, the second one already holding lamports (and no data).
StateAccounts == {"pda", "alt", "funded"}
ExpectedPda == "pda"
NullifierAccounts == {"n1", "n2"}
Wallets == {"vault", "user"}
AllAccounts == StateAccounts \cup NullifierAccounts \cup Wallets
VerifierPrograms == {"sunspot", "permissive"}

VARIABLES
  lamports,      \* the balance of every account
  data,          \* the MixerState bytes of each state account that has LEN bytes
  last,          \* the last instruction processed and its result
  markedBy,      \* history: the nullifier hash whose Withdraw created each marker
  failedVerify,  \* history: nullifier hashes of Withdraws that failed verification
  pushed,        \* history: roots pushed into the pool since it was initialized
  entry          \* history: the first account and the decoded data of the last
                 \* instruction that came in as bytes through process_instruction

vars == <<lamports, data, last, markedBy, failedVerify, pushed, entry>>

\* ------------------------------------------------------------- MixerState
ZeroState ==
  [denomination |-> 0,
   roots |-> [i \in 0..(ROOT_HISTORY_SIZE - 1) |-> ZeroRoot],
   current_root_index |-> 0]

RECURSIVE ScanRoots(_, _, _, _)
ScanRoots(state, root, idx, remaining) ==
  IF remaining = 0 THEN FALSE
  ELSE IF state.roots[idx] = root THEN TRUE
  ELSE ScanRoots(state, root,
                 IF idx = 0 THEN ROOT_HISTORY_SIZE - 1 ELSE idx - 1,
                 remaining - 1)

is_known_root_short_scan(state, root) ==
  IF root = ZeroRoot THEN FALSE
  ELSE ScanRoots(state, root, state.current_root_index, ROOT_HISTORY_SIZE - 1)

is_known_root_no_sentinel(state, root) ==
  ScanRoots(state, root, state.current_root_index, ROOT_HISTORY_SIZE)

is_known_root(state, root) ==
  IF root = ZeroRoot THEN FALSE
  ELSE ScanRoots(state, root, state.current_root_index, ROOT_HISTORY_SIZE)

push_root_short_ring(state, root) ==
  LET next == (state.current_root_index + 1) % (ROOT_HISTORY_SIZE - 1)
  IN  [state EXCEPT !.roots[next] = root, !.current_root_index = next]

push_root_dedup(state, root) ==
  LET next == (state.current_root_index + 1) % ROOT_HISTORY_SIZE
  IN  IF \E i \in DOMAIN state.roots : state.roots[i] = root
        THEN state
        ELSE [state EXCEPT !.roots[next] = root, !.current_root_index = next]

push_root_no_wrap(state, root) ==
  LET next == state.current_root_index + 1
  IN  [state EXCEPT !.roots = [i \in DOMAIN state.roots |->
                                 IF i = next THEN root ELSE state.roots[i]],
                    !.current_root_index = next]

push_root(state, root) ==
  LET next == (state.current_root_index + 1) % ROOT_HISTORY_SIZE
  IN  [state EXCEPT !.roots[next] = root, !.current_root_index = next]

\* ---------------------------------------------------------------- ledger
Ledger(l, d) == [lamports |-> l, data |-> d]

Current == Ledger(lamports, data)

\* The length of an account's data: LEN once create_account allocated it.
DataLen(L, account) == IF account \in DOMAIN L.data THEN LEN ELSE 0

\* load_state / store_state: the account's bytes hold the three fields at
\* fixed offsets; both fail when the data is shorter than LEN.
load_state(L, state_account) ==
  IF DataLen(L, state_account) < LEN
    THEN [ok |-> FALSE, state |-> ZeroState]
    ELSE [ok |-> TRUE, state |-> L.data[state_account]]

store_state(L, state_account, state) ==
  IF DataLen(L, state_account) < LEN
    THEN [ok |-> FALSE, after |-> L]
    ELSE [ok |-> TRUE, after |-> [L EXCEPT !.data[state_account] = state]]

\* What the runtime keeps of an instruction: its writes on Ok, nothing on Err.
CommitAlways(result, before, after) == after

Commit(result, before, after) == IF result = "Ok" THEN after ELSE before

\* ------------------------------------------------------------ handlers
\* Each handler is a function of the ledger and of the instruction's
\* accounts and data; it returns the result and the ledger as the handler
\* left it when it returned.
Returned(result, after) == [result |-> result, after |-> after]

\* system_instruction::create_account of the state account, signed for the
\* PDA with invoke_signed: the payer funds StateRent, the account gets LEN
\* zeroed bytes.
CreateStateAccount(L, state_account) ==
  [lamports |-> [L.lamports EXCEPT !["user"] = @ - StateRent,
                                   ![state_account] = StateRent],
   data |-> [a \in DOMAIN L.data \cup {state_account} |->
               IF a = state_account THEN ZeroState ELSE L.data[a]]]

InitialState(denomination) == [ZeroState EXCEPT !.denomination = denomination]

process_initialize(L, payer_is_signer, state_account, denomination) ==
  IF ~payer_is_signer THEN Returned("MissingRequiredSignature", L)
  ELSE IF L.lamports[state_account] = 0 /\ state_account # ExpectedPda
    THEN Returned("InvalidArgument", L)
  ELSE IF L.lamports[state_account] = 0 /\ L.lamports["user"] < StateRent
    THEN Returned("SystemProgramError", L)
  ELSE
    LET created == IF L.lamports[state_account] = 0
                     THEN CreateStateAccount(L, state_account) ELSE L
    IN  IF DataLen(created, state_account) < LEN
          THEN Returned("AccountDataTooSmall", created)
          ELSE Returned("Ok",
                 [created EXCEPT !.data[state_account] = InitialState(denomination)])

process_push_root_unsigned(L, authority_is_signer, state_account, new_root) ==
  LET loaded == load_state(L, state_account) IN
  IF ~loaded.ok THEN Returned("AccountDataTooSmall", L)
  ELSE
    LET stored == store_state(L, state_account, push_root(loaded.state, new_root))
    IN  IF ~stored.ok THEN Returned("AccountDataTooSmall", L)
        ELSE Returned("Ok", stored.after)

process_push_root(L, authority_is_signer, state_account, new_root) ==
  IF ~authority_is_signer THEN Returned("MissingRequiredSignature", L)
  ELSE
    LET loaded == load_state(L, state_account) IN
    IF ~loaded.ok THEN Returned("AccountDataTooSmall", L)
    ELSE
      LET stored == store_state(L, state_account, push_root(loaded.state, new_root))
      IN  IF ~stored.ok THEN Returned("AccountDataTooSmall", L)
          ELSE Returned("Ok", stored.after)

\* The accounts and data of a Withdraw.  The vault is account "vault" and
\* the recipient account "user"; which account is passed as state account,
\* as nullifier account and as verifier program, and whether the recipient
\* signed, is the caller's choice.  The vault and the nullifier account are
\* taken to have signed, as the system program requires of a transfer's
\* source and of create_account's new account.
WithdrawArgs ==
  [state_account : {ExpectedPda, "alt"},
   nullifier_account : NullifierAccounts,
   recipient_is_signer : BOOLEAN,
   verifier_program : VerifierPrograms,
   root : Roots,
   nullifier_hash : Hashes,
   proof_valid : BOOLEAN]

\* invoke(&verify_ix): the program whose key the caller passed runs on the
\* proof bytes.  The Sunspot verifier errors on an invalid proof; a program
\* that always returns Ok accepts every blob.
VerifierAccepts(verifier_program, proof_valid) ==
  IF verifier_program = "sunspot" THEN proof_valid ELSE TRUE

WithdrawReturned(result, after, marker_created, verifier_invoked) ==
  [result |-> result, after |-> after,
   marker_created |-> marker_created, verifier_invoked |-> verifier_invoked]

process_withdraw_verify_first(L, a) ==
  LET loaded == load_state(L, a.state_account)
      state == loaded.state
  IN
  IF ~loaded.ok THEN WithdrawReturned("AccountDataTooSmall", L, FALSE, FALSE)
  ELSE IF ~is_known_root(state, a.root)
    THEN WithdrawReturned("UnknownRoot", L, FALSE, FALSE)
  ELSE IF L.lamports[a.nullifier_account] > 0
    THEN WithdrawReturned("NullifierUsed", L, FALSE, FALSE)
  ELSE IF ~VerifierAccepts(a.verifier_program, a.proof_valid)
    THEN WithdrawReturned("VerificationFailed", L, FALSE, TRUE)
  ELSE IF ~a.recipient_is_signer
    THEN WithdrawReturned("MissingRequiredSignature", L, FALSE, TRUE)
  ELSE IF L.lamports["user"] < MarkerRent
    THEN WithdrawReturned("SystemProgramError", L, FALSE, TRUE)
  ELSE
    LET marked == [L EXCEPT !.lamports["user"] = @ - MarkerRent,
                            !.lamports[a.nullifier_account] = MarkerRent]
    IN
    IF marked.lamports["vault"] < state.denomination
      THEN WithdrawReturned("SystemProgramError", marked, TRUE, TRUE)
    ELSE
      LET debited == [marked EXCEPT !.lamports["vault"] = @ - state.denomination]
          paid == [debited EXCEPT !.lamports["user"] = @ + state.denomination]
      IN  WithdrawReturned("Ok", paid, TRUE, TRUE)

process_withdraw_zeroing(L, a) ==
  LET r == process_withdraw_verify_first(L, a) IN
  IF r.result = "Ok"
    THEN [r EXCEPT !.after.data[a.state_account].denomination = 0]
    ELSE r

process_withdraw(L, a) ==
  LET loaded == load_state(L, a.state_account)
      state == loaded.state
  IN
  IF ~loaded.ok THEN WithdrawReturned("AccountDataTooSmall", L, FALSE, FALSE)
  ELSE IF ~is_known_root(state, a.root)
    THEN WithdrawReturned("UnknownRoot", L, FALSE, FALSE)
  ELSE IF L.lamports[a.nullifier_account] > 0
    THEN WithdrawReturned("NullifierUsed", L, FALSE, FALSE)
  ELSE IF ~a.recipient_is_signer
    THEN WithdrawReturned("MissingRequiredSignature", L, FALSE, FALSE)
  ELSE IF L.lamports["user"] < MarkerRent
    THEN WithdrawReturned("SystemProgramError", L, FALSE, FALSE)
  ELSE
    LET marked == [L EXCEPT !.lamports["user"] = @ - MarkerRent,
                            !.lamports[a.nullifier_account] = MarkerRent]
    IN
    IF ~VerifierAccepts(a.verifier_program, a.proof_valid)
      THEN WithdrawReturned("VerificationFailed", marked, TRUE, TRUE)
    ELSE IF marked.lamports["vault"] < state.denomination
      THEN WithdrawReturned("SystemProgramError", marked, TRUE, TRUE)
    ELSE
      LET debited == [marked EXCEPT !.lamports["vault"] = @ - state.denomination]
          paid == [debited EXCEPT !.lamports["user"] = @ + state.denomination]
      IN  WithdrawReturned("Ok", paid, TRUE, TRUE)

\* ------------------------------------------------------ instruction data
\* Instruction data is a sequence of bytes.  A u64 is its 8 bytes read
\* little-endian.  A 32-byte array is copied as it is; the model names it by
\* the number its bytes spell little-endian, the all-zero array being
\* ZeroRoot.
RECURSIVE LeFrom(_, _)
LeFrom(bytes, i) ==
  IF i > Len(bytes) THEN 0 ELSE bytes[i] + 256 * LeFrom(bytes, i + 1)

from_le_bytes(bytes) == LeFrom(bytes, 1)

UnpackErr == [ok |-> FALSE, error |-> "InvalidInstruction"]

UnpackOk(instruction) == [ok |-> TRUE, instruction |-> instruction]

\* No instruction has come in as bytes yet.
NoEntry == [first |-> "none", unpacked |-> [ok |-> FALSE, error |-> "None"]]

unpack_lenient(input) ==
  IF input = <<>> THEN UnpackErr
  ELSE
    LET tag == Head(input)
        rest == Tail(input)
    IN
    CASE tag = 0 ->
           IF Len(rest) < 8 THEN UnpackErr
           ELSE UnpackOk([tag |-> "Initialize",
                          denomination |-> from_le_bytes(SubSeq(rest, 1, 8))])
      [] tag = 1 ->
           IF Len(rest) # 32 THEN UnpackErr
           ELSE UnpackOk([tag |-> "PushRoot", new_root |-> from_le_bytes(rest)])
      [] tag = 2 ->
           IF Len(rest) < 32 + 32 + 32 THEN UnpackErr
           ELSE UnpackOk([tag |-> "Withdraw",
                          root |-> from_le_bytes(SubSeq(rest, 1, 32)),
                          nullifier_hash |-> from_le_bytes(SubSeq(rest, 33, 64)),
                          recipient_field |-> from_le_bytes(SubSeq(rest, 65, 96)),
                          proof |-> SubSeq(rest, 97, Len(rest))])
      [] OTHER -> UnpackErr

unpack(input) ==
  IF input = <<>> THEN UnpackErr
  ELSE
    LET tag == Head(input)
        rest == Tail(input)
    IN
    CASE tag = 0 ->
           IF Len(rest) # 8 THEN UnpackErr
           ELSE UnpackOk([tag |-> "Initialize", denomination |-> from_le_bytes(rest)])
      [] tag = 1 ->
           IF Len(rest) # 32 THEN UnpackErr
           ELSE UnpackOk([tag |-> "PushRoot", new_root |-> from_le_bytes(rest)])
      [] tag = 2 ->
           IF Len(rest) < 32 + 32 + 32 THEN UnpackErr
           ELSE UnpackOk([tag |-> "Withdraw",
                          root |-> from_le_bytes(SubSeq(rest, 1, 32)),
                          nullifier_hash |-> from_le_bytes(SubSeq(rest, 33, 64)),
                          recipient_field |-> from_le_bytes(SubSeq(rest, 65, 96)),
                          proof |-> SubSeq(rest, 97, Len(rest))])
      [] OTHER -> UnpackErr

\* The accounts of an instruction as process_instruction gets them: the key
\* of the first account (payer, authority or relayer), the keys that signed
\* the transaction, and the accounts passed as state account, nullifier
\* account and verifier program.  The recipient is account "user", so it
\* signed when "user" is among the signers.
Callers == {"user", "relayer"}

Dispatched(result, after, handler) ==
  [result |-> result, after |-> after, handler |-> handler]

WithdrawOf(accounts, instruction, proof_valid) ==
  [state_account |-> accounts.state_account,
   nullifier_account |-> accounts.nullifier_account,
   recipient_is_signer |-> "user" \in accounts.signers,
   verifier_program |-> accounts.verifier_program,
   root |-> instruction.root,
   nullifier_hash |-> instruction.nullifier_hash,
   proof_valid |-> proof_valid]

process_instruction_first_is_payer(L, accounts, instruction_data, proof_valid) ==
  LET unpacked == unpack(instruction_data)
      instruction == unpacked.instruction
      first_is_signer == accounts.first \in accounts.signers
  IN
  IF ~unpacked.ok THEN Dispatched("InvalidInstruction", L, "None")
  ELSE
    CASE instruction.tag = "Initialize" ->
           LET r == process_initialize(L, first_is_signer, accounts.state_account,
                                       instruction.denomination)
           IN  Dispatched(r.result, r.after, "Initialize")
      [] instruction.tag = "PushRoot" ->
           LET r == process_push_root(L, first_is_signer /\ accounts.first = "user",
                                      accounts.state_account, instruction.new_root)
           IN  Dispatched(r.result, r.after, "PushRoot")
      [] instruction.tag = "Withdraw" ->
           LET r == process_withdraw(L, WithdrawOf(accounts, instruction, proof_valid))
           IN  Dispatched(r.result, r.after, "Withdraw")

\* proof_valid: whether the bytes handed on as proof are a blob the Sunspot
\* verifier accepts.
process_instruction(L, accounts, instruction_data, proof_valid) ==
  LET unpacked == unpack(instruction_data)
      instruction == unpacked.instruction
      first_is_signer == accounts.first \in accounts.signers
  IN
  IF ~unpacked.ok THEN Dispatched("InvalidInstruction", L, "None")
  ELSE
    CASE instruction.tag = "Initialize" ->
           LET r == process_initialize(L, first_is_signer, accounts.state_account,
                                       instruction.denomination)
           IN  Dispatched(r.result, r.after, "Initialize")
      [] instruction.tag = "PushRoot" ->
           LET r == process_push_root(L, first_is_signer, accounts.state_account,
                                      instruction.new_root)
           IN  Dispatched(r.result, r.after, "PushRoot")
      [] instruction.tag = "Withdraw" ->
           LET r == process_withdraw(L, WithdrawOf(accounts, instruction, proof_valid))
           IN  Dispatched(r.result, r.after, "Withdraw")

\* ---------------------------------------------------------------- actions
Install(c) ==
  /\ lamports' = c.lamports
  /\ data' = c.data

Initialize(payer_is_signer, state_account, denomination) ==
  \E r \in {process_initialize(Current, payer_is_signer, state_account, denomination)} :
  /\ Install(Commit(r.result, Current, r.after))
  /\ last' = [op |-> "Initialize", result |-> r.result]
  /\ pushed' = IF r.result = "Ok" /\ state_account = ExpectedPda THEN <<>> ELSE pushed
  /\ UNCHANGED <<markedBy, failedVerify>>

PushRoot(authority_is_signer, state_account, new_root) ==
  \E r \in {process_push_root(Current, authority_is_signer, state_account, new_root)} :
  /\ Install(Commit(r.result, Current, r.after))
  /\ last' = [op |-> "PushRoot", result |-> r.result]
  /\ pushed' = IF r.result = "Ok" /\ state_account = ExpectedPda
                 THEN Append(pushed, new_root) ELSE pushed
  /\ UNCHANGED <<markedBy, failedVerify>>

Withdraw(a) ==
  \E r \in {process_withdraw(Current, a)} :
  /\ Install(Commit(r.result, Current, r.after))
  /\ last' = [op |-> "Withdraw", result |-> r.result]
  /\ markedBy' = IF r.result = "Ok"
                   THEN [markedBy EXCEPT ![a.nullifier_account] = a.nullifier_hash]
                   ELSE markedBy
  /\ failedVerify' = IF r.result = "VerificationFailed"
                       THEN failedVerify \cup {a.nullifier_hash} ELSE failedVerify
  /\ UNCHANGED pushed

\* ----------------------------------------------------------- specification
InitialLamports ==
  [a \in AllAccounts |->
     CASE a = "vault" -> VaultFunds
       [] a = "user" -> PayerFunds
       [] a = "funded" -> 1
       [] OTHER -> 0]

Init ==
  /\ lamports = InitialLamports
  /\ data = <<>>
  /\ last = [op |-> "None", result |-> "Ok"]
  /\ markedBy = [n \in NullifierAccounts |-> 0]
  /\ failedVerify = {}
  /\ pushed = <<>>
  /\ entry = NoEntry

DoInitialize ==
  /\ \E payer_is_signer \in BOOLEAN, state_account \in StateAccounts,
        denomination \in Denominations :
          Initialize(payer_is_signer, state_account, denomination)
  /\ UNCHANGED entry

DoPushRoot ==
  /\ Len(pushed) < MaxPush
  /\ \E authority_is_signer \in BOOLEAN, state_account \in StateAccounts,
        new_root \in Roots :
          PushRoot(authority_is_signer, state_account, new_root)
  /\ UNCHANGED entry

DoWithdraw ==
  /\ \E a \in WithdrawArgs : Withdraw(a)
  /\ UNCHANGED entry

Next == DoInitialize \/ DoPushRoot \/ DoWithdraw

Spec == Init /\ [][Next]_vars

\* The ring alone: the pool as a successful Initialize leaves it, then
\* PushRoot after PushRoot.  A push is either of a root never pushed before
\* (the number of the push) or, at most MaxIrregular times, of the all-zero
\* root or of a root pushed earlier (the first one or the latest one).
FreshPool == process_initialize(Ledger(InitialLamports, <<>>), TRUE, ExpectedPda, 1)

RingInit ==
  /\ lamports = Commit(FreshPool.result, Ledger(InitialLamports, <<>>), FreshPool.after).lamports
  /\ data = Commit(FreshPool.result, Ledger(InitialLamports, <<>>), FreshPool.after).data
  /\ last = [op |-> "Initialize", result |-> FreshPool.result]
  /\ markedBy = [n \in NullifierAccounts |-> 0]
  /\ failedVerify = {}
  /\ pushed = <<>>
  /\ entry = NoEntry

Irregular == Cardinality({i \in DOMAIN pushed : pushed[i] # i})

PushFresh ==
  /\ Len(pushed) < RingMaxPush
  /\ PushRoot(TRUE, ExpectedPda, Len(pushed) + 1)
  /\ UNCHANGED entry

PushAgain ==
  /\ Len(pushed) < RingMaxPush
  /\ Irregular < MaxIrregular
  /\ \E new_root \in {ZeroRoot} \cup {pushed[i] : i \in DOMAIN pushed \cap {1, Len(pushed)}} :
       PushRoot(TRUE, ExpectedPda, new_root)
  /\ UNCHANGED entry

RingNext == PushFresh \/ PushAgain

SpecRing == RingInit /\ [][RingNext]_vars

\* The entrypoint: instructions come in as bytes.  to_le_bytes and pack are
\* the client's side of the wire format: a tag byte, then the fields, a u64
\* as 8 bytes little-endian, 32-byte arrays as they are, the proof last.
RECURSIVE to_le_bytes(_, _)
to_le_bytes(n, len) ==
  IF len = 0 THEN <<>> ELSE <<n % 256>> \o to_le_bytes(n \div 256, len - 1)

pack(instruction) ==
  CASE instruction.tag = "Initialize" ->
         <<0>> \o to_le_bytes(instruction.denomination, 8)
    [] instruction.tag = "PushRoot" ->
         <<1>> \o to_le_bytes(instruction.new_root, 32)
    [] instruction.tag = "Withdraw" ->
         <<2>> \o to_le_bytes(instruction.root, 32)
               \o to_le_bytes(instruction.nullifier_hash, 32)
               \o to_le_bytes(instruction.recipient_field, 32)
               \o instruction.proof

Instructions ==
  [tag : {"Initialize"}, denomination : {1, 258}]
    \cup [tag : {"PushRoot"}, new_root : {0, 258}]
    \cup [tag : {"Withdraw"}, root : {258}, nullifier_hash : {2},
          recipient_field : {3}, proof : {<<>>, <<7>>}]

\* The payloads sent: every instruction packed, and each of these cut short
\* by a byte, longer by a byte and under an unknown tag; the empty payload
\* and the payloads of a tag alone.
Payloads ==
  LET packed == {pack(i) : i \in Instructions} IN
  packed
    \cup {SubSeq(p, 1, Len(p) - 1) : p \in packed}
    \cup {Append(p, 0) : p \in packed}
    \cup {<<3>> \o Tail(p) : p \in packed}
    \cup {<<>>, <<0>>, <<1>>, <<2>>, <<255>>}

EntryAccounts ==
  [first : Callers,
   signers : SUBSET Callers,
   state_account : {ExpectedPda},
   nullifier_account : {"n1"},
   verifier_program : {"sunspot"}]

\* What unpack returns for each payload, for the history kept in entry.
Unpacked == [instruction_data \in Payloads |-> unpack(instruction_data)]

ProcessInstruction(accounts, instruction_data, proof_valid) ==
  \E r \in {process_instruction(Current, accounts, instruction_data, proof_valid)} :
  LET unpacked == Unpacked[instruction_data]
      done == r.result = "Ok"
  IN
  /\ Install(Commit(r.result, Current, r.after))
  /\ last' = [op |-> r.handler, result |-> r.result]
  /\ entry' = [first |-> accounts.first, unpacked |-> unpacked]
  /\ pushed' = IF done /\ r.handler = "Initialize" /\ accounts.state_account = ExpectedPda
                 THEN <<>>
               ELSE IF done /\ r.handler = "PushRoot" /\ accounts.state_account = ExpectedPda
                 THEN Append(pushed, unpacked.instruction.new_root)
               ELSE pushed
  /\ markedBy' = IF done /\ r.handler = "Withdraw"
                   THEN [markedBy EXCEPT ![accounts.nullifier_account] =
                                            unpacked.instruction.nullifier_hash]
                   ELSE markedBy
  /\ failedVerify' = IF r.handler = "Withdraw" /\ r.result = "VerificationFailed"
                       THEN failedVerify \cup {unpacked.instruction.nullifier_hash}
                       ELSE failedVerify

\* Whether the proof bytes verify is a question of a Withdraw only.
Verdicts(unpacked) ==
  IF unpacked.ok /\ unpacked.instruction.tag = "Withdraw" THEN BOOLEAN ELSE {FALSE}

\* The payer of an Initialize is the account "user".
Receive ==
  \E instruction_data \in Payloads, accounts \in EntryAccounts :
   \E proof_valid \in Verdicts(Unpacked[instruction_data]) :
    /\ Unpacked[instruction_data].ok =>
         /\ Unpacked[instruction_data].instruction.tag = "Initialize" => accounts.first = "user"
         /\ Unpacked[instruction_data].instruction.tag = "PushRoot" => Len(pushed) < MaxEntryPush
    /\ ProcessInstruction(accounts, instruction_data, proof_valid)

SpecDecode == Init /\ [][Receive]_vars

\* The life of the pool: from the freshly initialized pool, pushes of fresh
\* roots around the ring, with Initialize again and Withdraw (of the latest
\* root or of the first one pushed) at any point.
LifeInitialize ==
  /\ \E denomination \in Denominations : Initialize(TRUE, ExpectedPda, denomination)
  /\ UNCHANGED entry

LifeWithdraw ==
  /\ Len(pushed) > 0
  /\ \E nullifier_account \in NullifierAccounts, proof_valid \in BOOLEAN,
        root \in {pushed[1], pushed[Len(pushed)]} :
       Withdraw([state_account |-> ExpectedPda,
                 nullifier_account |-> nullifier_account,
                 recipient_is_signer |-> TRUE,
                 verifier_program |-> "sunspot",
                 root |-> root,
                 nullifier_hash |-> 1,
                 proof_valid |-> proof_valid])
  /\ UNCHANGED entry

LifeNext == PushFresh \/ LifeInitialize \/ LifeWithdraw

SpecLife == RingInit /\ [][LifeNext]_vars

\* ------------------------------------------------------------------ claims
\* What the claims speak of, in terms of the history of the pool.
PoolInitialized == ExpectedPda \in DOMAIN data

Pool == data[ExpectedPda]

Max(x, y) == IF x > y THEN x ELSE y

\* The roots of the ROOT_HISTORY_SIZE most recent pushes.
Recent == {pushed[i] : i \in Max(1, Len(pushed) - ROOT_HISTORY_SIZE + 1)..Len(pushed)}

EverPushed == {pushed[i] : i \in DOMAIN pushed}

Spent(h) == \E n \in NullifierAccounts : markedBy[n] = h

Outcome(a) == process_withdraw(Current, a)

Committed(a) == Commit(Outcome(a).result, Current, Outcome(a).after)

\* C1: at most one Withdraw carrying a given nullifier hash ever succeeds, and
\* at most one marker per nullifier hash exists.
C1_NoDoubleWithdraw ==
  \A h \in Hashes : Cardinality({n \in NullifierAccounts : markedBy[n] = h}) <= 1

\* C2: once a Withdraw with nullifier hash H has succeeded, every Withdraw
\* with the same H, whatever its other arguments, fails with NullifierUsed
\* and changes no balance.
C2_ReplayRejected ==
  \A a \in WithdrawArgs :
    Spent(a.nullifier_hash) =>
      /\ Outcome(a).result = "NullifierUsed"
      /\ Committed(a).lamports = lamports

\* C3: the vault balance decreases only through a Withdraw that referenced a
\* root known to the pool's ring, found the nullifier unspent and carried a
\* valid proof; Initialize and PushRoot never decrease it.
C3_FundsNeedRootNullifierProof ==
  /\ \A a \in WithdrawArgs :
       Committed(a).lamports["vault"] < lamports["vault"] =>
         /\ PoolInitialized
         /\ a.root \in Recent \ {ZeroRoot}
         /\ ~Spent(a.nullifier_hash)
         /\ a.proof_valid
  /\ \A s \in BOOLEAN, acc \in StateAccounts, d \in Denominations :
       LET r == process_initialize(Current, s, acc, d)
       IN  Commit(r.result, Current, r.after).lamports["vault"] >= lamports["vault"]
  /\ \A s \in BOOLEAN, acc \in StateAccounts, root \in Roots :
       LET r == process_push_root(Current, s, acc, root)
       IN  Commit(r.result, Current, r.after).lamports["vault"] >= lamports["vault"]

\* C4: a Withdraw on the pool with a known root, a fresh nullifier hash (at a
\* marker account not yet in use) and a valid proof for the Sunspot verifier,
\* the vault holding the denomination and the marker's rent being at hand,
\* succeeds, takes exactly the denomination from the vault, adds exactly the
\* denomination to the recipient, and leaves a marker.
C4_WithdrawEffect ==
  \A a \in WithdrawArgs :
    ( /\ a.state_account = ExpectedPda
      /\ PoolInitialized
      /\ a.root \in Recent \ {ZeroRoot}
      /\ ~Spent(a.nullifier_hash)
      /\ lamports[a.nullifier_account] = 0
      /\ a.verifier_program = "sunspot"
      /\ a.proof_valid
      /\ lamports["vault"] >= Pool.denomination
      /\ lamports["user"] >= MarkerRent )
    => /\ Outcome(a).result = "Ok"
       /\ Committed(a).lamports["vault"] = lamports["vault"] - Pool.denomination
       /\ Committed(a).lamports["user"] = lamports["user"] + Pool.denomination
       /\ Committed(a).lamports[a.nullifier_account] > 0

\* C5: a Withdraw on the pool whose root is not known (never pushed, the
\* all-zero root, or pushed before the pool was initialized again) fails with
\* UnknownRoot before a marker is created and before the verifier is invoked,
\* and changes nothing.
C5_UnknownRootRejected ==
  \A a \in WithdrawArgs :
    ( /\ a.state_account = ExpectedPda
      /\ PoolInitialized
      /\ a.root \notin Recent \ {ZeroRoot} )
    => LET r == process_withdraw(Current, a) IN
       /\ r.result = "UnknownRoot"
       /\ ~r.marker_created
       /\ ~r.verifier_invoked
       /\ r.after = Current
       /\ Commit(r.result, Current, r.after) = Current

C5_Witness ==
  /\ last = [op |-> "Withdraw", result |-> "UnknownRoot"]
  /\ Len(pushed) > 0

\* C6: once the pool is initialized, no operation alters the stored
\* denomination.
C6_DenominationFixed ==
  [][PoolInitialized =>
       /\ ExpectedPda \in DOMAIN data'
       /\ data'[ExpectedPda].denomination = Pool.denomination]_vars

\* C7: from a freshly initialized pool, after at most ROOT_HISTORY_SIZE
\* pushes, is_known_root is true of every non-zero root pushed, false of
\* every root never pushed and false of the all-zero root.
C7_RootRetention ==
  (PoolInitialized /\ Len(pushed) <= ROOT_HISTORY_SIZE) =>
    \A r \in RingRoots :
      is_known_root(Pool, r) = (r # ZeroRoot /\ r \in EverPushed)

C7_Witness ==
  /\ last = [op |-> "PushRoot", result |-> "Ok"]
  /\ Len(pushed) = ROOT_HISTORY_SIZE
  /\ ZeroRoot \notin EverPushed
  /\ \A i \in DOMAIN pushed : is_known_root(Pool, pushed[i])
  /\ ~is_known_root(Pool, ROOT_HISTORY_SIZE + 1)

\* C8: once more than ROOT_HISTORY_SIZE roots were pushed, the known roots
\* are the non-zero roots of the ROOT_HISTORY_SIZE most recent pushes: each
\* push beyond ROOT_HISTORY_SIZE expires the oldest one only.
C8_RootExpiry ==
  (PoolInitialized /\ Len(pushed) > ROOT_HISTORY_SIZE) =>
    \A r \in RingRoots :
      is_known_root(Pool, r) = (r # ZeroRoot /\ r \in Recent)

C8_Witness ==
  /\ last = [op |-> "PushRoot", result |-> "Ok"]
  /\ Len(pushed) = ROOT_HISTORY_SIZE + 1
  /\ \A i \in DOMAIN pushed : pushed[i] = i
  /\ ~is_known_root(Pool, pushed[1])
  /\ \A i \in 2..Len(pushed) : is_known_root(Pool, pushed[i])

\* C9: a Withdraw on which the verifier is invoked and rejects the proof
\* fails with VerificationFailed and nothing of it is kept: the ledger is as
\* before, the nullifier account holds no lamports, and the same Withdraw
\* with a valid proof is not refused as already used (it succeeds when the
\* vault holds the denomination).
C9_FailedVerificationDiscarded ==
  \A a \in WithdrawArgs :
    LET r == process_withdraw(Current, a)
        kept == Commit(r.result, Current, r.after)
        again == process_withdraw(kept, [a EXCEPT !.proof_valid = TRUE])
    IN  (r.verifier_invoked /\ a.verifier_program = "sunspot" /\ ~a.proof_valid) =>
          /\ r.result = "VerificationFailed"
          /\ kept = Current
          /\ kept.lamports[a.nullifier_account] = 0
          /\ again.result # "NullifierUsed"
          /\ lamports["vault"] >= Pool.denomination => again.result = "Ok"

\* The first successful Withdraw is the last step, and its nullifier hash is
\* one whose Withdraw failed verification before.
C9_Witness ==
  /\ last = [op |-> "Withdraw", result |-> "Ok"]
  /\ \E n \in NullifierAccounts :
       /\ markedBy[n] \in failedVerify
       /\ \A m \in NullifierAccounts \ {n} : markedBy[m] = 0

\* C10 as stated: a Withdraw that failed verification consumed its nullifier:
\* every later Withdraw with that nullifier hash fails with NullifierUsed.
C10_FailedVerificationBurns ==
  \A a \in WithdrawArgs :
    a.nullifier_hash \in failedVerify =>
      process_withdraw(Current, a).result = "NullifierUsed"

\* C10 as amended: the handler creates the marker before it invokes the
\* verifier, but a Withdraw that fails verification leaves no marker: the
\* nullifier accounts that hold lamports are those of successful Withdraws,
\* so the failed Withdraw consumed no nullifier.
C10_FailedVerificationLeavesNoMarker ==
  /\ \A a \in WithdrawArgs :
       LET r == process_withdraw(Current, a) IN
       /\ r.verifier_invoked =>
            r.marker_created /\ r.after.lamports[a.nullifier_account] = MarkerRent
       /\ r.result = "VerificationFailed" =>
            Commit(r.result, Current, r.after).lamports[a.nullifier_account] = 0
  /\ \A n \in NullifierAccounts : lamports[n] > 0 <=> markedBy[n] # 0

C10_Witness ==
  /\ last = [op |-> "Withdraw", result |-> "VerificationFailed"]
  /\ failedVerify # {}
  /\ \A n \in NullifierAccounts : lamports[n] = 0

\* What the Sunspot verifier is handed: a blob that holds a Groth16 proof and
\* the public witness (root, nullifier_hash, recipient) the proof speaks of.
\* The verifier accepts the blob when the proof is sound for that witness;
\* these public inputs are the ones it authenticates.
Proofs ==
  [root : Roots, nullifier_hash : Hashes, recipient : Wallets, sound : BOOLEAN]

\* C11: whenever a Withdraw succeeds, the public inputs the verifier
\* authenticated are the root and nullifier hash the handler used for its
\* root check and marker, and the recipient that received the funds (account
\* "user"): a proof for one triple makes no Withdraw of another triple
\* succeed.
C11_PublicInputBinding ==
  \A p \in Proofs, a \in WithdrawArgs :
    ( /\ a.verifier_program = "sunspot"
      /\ a.proof_valid = p.sound
      /\ Outcome(a).result = "Ok" )
    => /\ p.root = a.root
       /\ p.nullifier_hash = a.nullifier_hash
       /\ p.recipient = "user"

\* C12: Initialize (signed) on a state account that is not the derived pool
\* address fails with InvalidArgument and writes nothing, whether the account
\* holds lamports already or not.
C12_WrongAccountRejected ==
  \A state_account \in StateAccounts \ {ExpectedPda}, denomination \in Denominations :
    LET r == process_initialize(Current, TRUE, state_account, denomination)
    IN  /\ r.result = "InvalidArgument"
        /\ Commit(r.result, Current, r.after) = Current

\* C13: Initialize without the payer's signature and PushRoot without the
\* authority's signature fail with MissingRequiredSignature (the program
\* error for "unauthorized") and leave every account, the pool state
\* included, as it was.
C13_UnsignedRejected ==
  /\ \A state_account \in StateAccounts, denomination \in Denominations :
       LET r == process_initialize(Current, FALSE, state_account, denomination)
       IN  /\ r.result = "MissingRequiredSignature"
           /\ r.after = Current
           /\ Commit(r.result, Current, r.after) = Current
  /\ \A state_account \in StateAccounts, new_root \in Roots :
       LET r == process_push_root(Current, FALSE, state_account, new_root)
       IN  /\ r.result = "MissingRequiredSignature"
           /\ r.after = Current
           /\ Commit(r.result, Current, r.after) = Current

\* An unsigned PushRoot was refused on a pool that holds a pushed root.
C13_Witness ==
  /\ last = [op |-> "PushRoot", result |-> "MissingRequiredSignature"]
  /\ PoolInitialized
  /\ \E i \in DOMAIN pushed : pushed[i] # ZeroRoot /\ is_known_root(Pool, pushed[i])

\* The payloads the wire format admits: tag 0 and 8 bytes, tag 1 and 32
\* bytes, tag 2 and 96 bytes or more.
WellFormed(input) ==
  /\ Len(input) >= 1
  /\ \/ input[1] = 0 /\ Len(input) = 1 + 8
     \/ input[1] = 1 /\ Len(input) = 1 + 32
     \/ input[1] = 2 /\ Len(input) >= 1 + 96

\* C14: unpack succeeds on the well-formed payloads and on no other; it
\* returns the field values that were packed (the denomination read
\* little-endian, the 32-byte fields, and the bytes after them as the proof,
\* none included); any other payload makes process_instruction fail with
\* InvalidInstruction without a handler being run or an account changed.
C14_DecoderRoundTrip ==
  /\ \A i \in Instructions : unpack(pack(i)) = UnpackOk(i)
  /\ \A input \in Payloads :
       LET unpacked == unpack(input) IN
       /\ unpacked.ok <=> WellFormed(input)
       /\ unpacked.ok => pack(unpacked.instruction) = input
       /\ ~unpacked.ok =>
            /\ unpacked = UnpackErr
            /\ \A accounts \in EntryAccounts :
                 process_instruction(Current, accounts, input, TRUE)
                   = Dispatched("InvalidInstruction", Current, "None")
  /\ ~entry.unpacked.ok =>
       \/ entry = NoEntry
       \/ last = [op |-> "None", result |-> "InvalidInstruction"]

\* A Withdraw that came in as bytes, with a one-byte proof after its three
\* 32-byte fields, was decoded and paid out of a pool that was initialized
\* and given its root by instructions that came in as bytes too.
C14_Witness ==
  /\ last = [op |-> "Withdraw", result |-> "Ok"]
  /\ entry.unpacked = UnpackOk([tag |-> "Withdraw", root |-> 258, nullifier_hash |-> 2,
                                recipient_field |-> 3, proof |-> <<7>>])
  /\ pushed = <<258>>
  /\ markedBy["n1"] = 2

\* C15: once the pool exists, Initialize no longer initializes: the ring of
\* roots and current_root_index change by PushRoot only, so a known root
\* stays known through a later Initialize.
C15_RingChangedByPushRootOnly ==
  [][(PoolInitialized /\ last'.op # "PushRoot") =>
       /\ ExpectedPda \in DOMAIN data'
       /\ data'[ExpectedPda].roots = Pool.roots
       /\ data'[ExpectedPda].current_root_index = Pool.current_root_index]_vars

\* C16: no Withdraw, failed or successful, alters the data of any state
\* account (denomination, the 30 roots, current_root_index); a successful
\* one, besides moving the denomination from the vault to the recipient,
\* creates one nullifier marker (paid by the recipient) and changes no
\* other balance.
C16_WithdrawKeepsPoolState ==
  \A a \in WithdrawArgs :
    LET r == process_withdraw(Current, a)
        kept == Commit(r.result, Current, r.after)
    IN  /\ r.after.data = data
        /\ kept.data = data
        /\ r.result = "Ok" =>
             LET denomination == data[a.state_account].denomination IN
             /\ lamports[a.nullifier_account] = 0
             /\ kept.lamports[a.nullifier_account] = MarkerRent
             /\ \A n \in NullifierAccounts \ {a.nullifier_account} :
                  kept.lamports[n] = lamports[n]
             /\ \A s \in StateAccounts : kept.lamports[s] = lamports[s]
             /\ kept.lamports["vault"] = lamports["vault"] - denomination
             /\ kept.lamports["user"] = lamports["user"] - MarkerRent + denomination

\* A Withdraw succeeded on a pool with a pushed root: the pool state is that
\* of the pushes, and one marker exists.
C16_Witness ==
  /\ last = [op |-> "Withdraw", result |-> "Ok"]
  /\ PoolInitialized
  /\ Len(pushed) = MaxPush
  /\ Pool.current_root_index = MaxPush
  /\ \A i \in DOMAIN pushed : Pool.roots[i] = pushed[i]
  /\ Cardinality({n \in NullifierAccounts : lamports[n] = MarkerRent}) = 1

\* C17: a Withdraw on the pool with a known root, a fresh nullifier and a
\* valid proof succeeds when a signer other than the recipient (the relayer,
\* account 0) funds the marker and the recipient does not sign.  The handler
\* binds account 0 to _relayer and never reads it, so the relayer's
\* signature and funds are no argument of process_withdraw.
C17_AnySignerFundsMarker ==
  \A a \in WithdrawArgs :
    ( /\ a.state_account = ExpectedPda
      /\ PoolInitialized
      /\ a.root \in Recent \ {ZeroRoot}
      /\ ~Spent(a.nullifier_hash)
      /\ lamports[a.nullifier_account] = 0
      /\ a.verifier_program = "sunspot"
      /\ a.proof_valid
      /\ lamports["vault"] >= Pool.denomination
      /\ ~a.recipient_is_signer )
    => Outcome(a).result = "Ok"

\* C18: a successful PushRoot sets current_root_index to the old index plus
\* one modulo ROOT_HISTORY_SIZE and writes new_root into that slot, whether
\* or not the ring holds new_root already; the other slots, the
\* denomination, the data of other accounts and every balance (markers
\* included) stay as they were, and a non-zero new_root is known at once.
C18_PushRootEffect ==
  PoolInitialized =>
    \A new_root \in RingRoots :
      LET r == process_push_root(Current, TRUE, ExpectedPda, new_root)
          kept == Commit(r.result, Current, r.after)
          next == (Pool.current_root_index + 1) % ROOT_HISTORY_SIZE
      IN  /\ r.result = "Ok"
          /\ DOMAIN kept.data = DOMAIN data
          /\ \A acc \in DOMAIN data \ {ExpectedPda} : kept.data[acc] = data[acc]
          /\ kept.data[ExpectedPda].current_root_index = next
          /\ kept.data[ExpectedPda].roots[next] = new_root
          /\ \A i \in 0..(ROOT_HISTORY_SIZE - 1) \ {next} :
               kept.data[ExpectedPda].roots[i] = Pool.roots[i]
          /\ kept.data[ExpectedPda].denomination = Pool.denomination
          /\ kept.lamports = lamports
          /\ new_root # ZeroRoot => is_known_root(kept.data[ExpectedPda], new_root)

\* The push that wraps the index round to slot 0 wrote there a root that
\* slot 1 holds as well.
C18_Witness ==
  /\ last = [op |-> "PushRoot", result |-> "Ok"]
  /\ Len(pushed) = ROOT_HISTORY_SIZE
  /\ Pool.current_root_index = 0
  /\ pushed[ROOT_HISTORY_SIZE] = pushed[1]
  /\ pushed[1] # ZeroRoot
  /\ Pool.roots[0] = pushed[1]
  /\ Pool.roots[1] = pushed[1]

\* The slots is_known_root's loop reads, in order, when it finds no match.
RECURSIVE ScanOrder(_, _)
ScanOrder(idx, remaining) ==
  IF remaining = 0 THEN <<>>
  ELSE <<idx>> \o ScanOrder(IF idx = 0 THEN ROOT_HISTORY_SIZE - 1 ELSE idx - 1,
                            remaining - 1)

\* C19: in every state the stored current_root_index of a state account is
\* one of the ROOT_HISTORY_SIZE slots of its ring, the slot push_root writes
\* next is one too, and is_known_root's scan from it reads every slot once.
C19_IndexInRange ==
  \A acc \in DOMAIN data :
    LET state == data[acc]
        order == ScanOrder(state.current_root_index, ROOT_HISTORY_SIZE)
    IN  /\ DOMAIN state.roots = 0..(ROOT_HISTORY_SIZE - 1)
        /\ state.current_root_index \in DOMAIN state.roots
        /\ push_root(state, ZeroRoot).current_root_index \in DOMAIN state.roots
        /\ \A slot \in DOMAIN state.roots :
             Cardinality({k \in DOMAIN order : order[k] = slot}) = 1

\* The index went round the ring (the last slot, then slot 0 again) with an
\* Initialize and a Withdraw on the way: a marker exists and the pool was
\* initialized again before these pushes.
C19_Witness ==
  /\ last = [op |-> "PushRoot", result |-> "Ok"]
  /\ Len(pushed) = ROOT_HISTORY_SIZE
  /\ Pool.current_root_index = 0
  /\ Pool.denomination = 2
  /\ \E n \in NullifierAccounts : lamports[n] = MarkerRent

\* C20: what a PushRoot does depends on whether its first account signed and
\* on the state account's data, not on whose key the first account is, and
\* the pool state holds no authority; on the initialized pool a PushRoot
\* signed by anyone succeeds and makes a non-zero root known.
C20_AnySignerPushes ==
  /\ PoolInitialized => DOMAIN Pool = {"denomination", "roots", "current_root_index"}
  /\ \A instruction_data \in Payloads :
       (Unpacked[instruction_data].ok
          /\ Unpacked[instruction_data].instruction.tag = "PushRoot") =>
         \A x \in EntryAccounts :
           LET r == process_instruction(Current, x, instruction_data, FALSE)
               new_root == Unpacked[instruction_data].instruction.new_root
           IN  /\ \A y \in EntryAccounts :
                    (x.first \in x.signers) = (y.first \in y.signers) =>
                      process_instruction(Current, y, instruction_data, FALSE) = r
               /\ (PoolInitialized /\ x.first \in x.signers) =>
                    /\ r.result = "Ok"
                    /\ new_root # ZeroRoot => is_known_root(r.after.data[ExpectedPda], new_root)

\* The pool was initialized by "user"; the relayer, signing, pushed a root
\* and the root is known.
C20_Witness ==
  /\ last = [op |-> "PushRoot", result |-> "Ok"]
  /\ entry = [first |-> "relayer",
              unpacked |-> UnpackOk([tag |-> "PushRoot", new_root |-> 258])]
  /\ is_known_root(Pool, 258)

====
